---- MODULE Spec2Model ----
(***************************************************************************)
(* Model of src/src/nodes/node.ts: the per-node HTTP runtime of a          *)
(* simulated Ben-Or network.  Every node is one call of node(nodeId, N, F, *)
(* initialValue, isFaulty, ...): it owns a `state` record (killed, x,      *)
(* decided, k) and one `consensusTimer` handle, and serves /status,        *)
(* /message, /start, /stop and /getState.  Handlers and timer callbacks    *)
(* run to completion on the node's single-threaded event loop, so each is  *)
(* one atomic action.  The model observes the first MaxNodes nodes of the  *)
(* network; nodes do not exchange any data in this source.                 *)
(***************************************************************************)
EXTENDS Integers, FiniteSets, Sequences, TLC

\* ---------------------------------------------------------------- bounds
\* number of node instances of the network that the model drives
MaxNodes == 2
\* cap on the round counter of the setInterval callback
MaxK == 2
\* cap on the round counter in the run of the N = 10, F = 6 scenario
ScenarioHorizon == 200

\* ------------------------------------------------------ program constants
\* JavaScript null in the numeric fields state.x and state.k
Null == -1
\* `if (F < 5)`
FaultThreshold == 5
\* `state.k = 2` in the finality callback
FinalRound == 2
\* `state.x = 1` in the finality callback
FinalValue == 1
\* `state.k = 0` before setInterval
FirstRound == 0

\* initialValue: Value
Values == {0, 1}
\* (N, F) pairs the network is launched with
Configs == {<<2, 1>>, <<4, 1>>, <<10, 6>>, <<11, 5>>}
\* request bodies posted to /message
Messages == {0, 1}

VARIABLES
    N,              \* total number of nodes in the network
    F,              \* number of faulty nodes in the network
    initialValue,   \* initialValue[i]: constructor argument of node i
    isFaulty,       \* isFaulty[i]: constructor argument of node i
    horizon,        \* number of interval periods a run is followed for
    killed,         \* state.killed of node i
    x,              \* state.x of node i (Null for JavaScript null)
    decided,        \* state.decided of node i: "null", "false" or "true"
    k,              \* state.k of node i (Null for JavaScript null)
    consensusTimer, \* consensusTimer of node i: "null", "timeout", "interval"
    pending,        \* number of live timers in the event loop of node i
    res             \* HTTP response written by the last step (NoResponse
                    \* after a timer callback, which has no `res`)

\* fixed at construction: the arguments of node() and the horizon
params == <<N, F, initialValue, isFaulty, horizon>>
state == <<killed, x, decided, k>>
timers == <<consensusTimer, pending>>
vars == <<N, F, initialValue, isFaulty, horizon, killed, x, decided, k,
          consensusTimer, pending, res>>

Min(a, b) == IF a < b THEN a ELSE b

\* ids of the node instances that exist in the model
Nodes == DOMAIN isFaulty

NoResponse == [op |-> "none", node |-> Null, status |-> 0, body |-> "", json |-> <<>>]

Response(op, i, status, body) ==
    [op |-> op, node |-> i, status |-> status, body |-> body, json |-> <<>>]

\* the object res.json(state) serialises
Snapshot(i) == <<killed[i], x[i], decided[i], k[i]>>

\* state of every node after construction (lines 21-29), given the
\* arguments N, F, isFaulty and initialValue
Constructed ==
    /\ killed = [i \in DOMAIN isFaulty |-> FALSE]
    /\ x = [i \in DOMAIN isFaulty |-> IF isFaulty[i] THEN Null ELSE initialValue[i]]
    /\ decided = [i \in DOMAIN isFaulty |-> "null"]
    /\ k = [i \in DOMAIN isFaulty |-> Null]
    /\ consensusTimer = [i \in DOMAIN isFaulty |-> "null"]
    /\ pending = [i \in DOMAIN isFaulty |-> 0]
    /\ res = NoResponse

\* the first MaxNodes nodes of a network launched with any of Configs
Init ==
    /\ \E c \in Configs : N = c[1] /\ F = c[2]
    /\ isFaulty \in [0 .. (Min(N, MaxNodes) - 1) -> BOOLEAN]
    /\ Cardinality({i \in DOMAIN isFaulty : isFaulty[i]}) <= F
    /\ Cardinality({i \in DOMAIN isFaulty : ~isFaulty[i]}) <= N - F
    /\ initialValue \in [DOMAIN isFaulty -> Values]
    /\ horizon = MaxK
    /\ Constructed

\* the two launches of the concrete scenarios: the whole network N = 4,
\* F = 1 with every initial value 1, and one healthy node of the network
\* N = 10, F = 6 followed for ScenarioHorizon interval periods
ScenarioInit ==
    /\ \/ /\ N = 4 /\ F = 1
          /\ isFaulty \in [0 .. (N - 1) -> BOOLEAN]
          /\ Cardinality({i \in DOMAIN isFaulty : isFaulty[i]}) = F
          /\ initialValue = [i \in DOMAIN isFaulty |-> 1]
          /\ horizon = MaxK
       \/ /\ N = 10 /\ F = 6
          /\ isFaulty = [i \in {0} |-> FALSE]
          /\ initialValue \in [DOMAIN isFaulty -> Values]
          /\ horizon = ScenarioHorizon
    /\ Constructed

\* GET /status
Status(i) ==
    /\ res' = IF isFaulty[i] THEN Response("status", i, 500, "faulty")
                             ELSE Response("status", i, 200, "live")
    /\ UNCHANGED <<params, state, timers>>

\* POST /message: logs the body and answers 200
Message(i) ==
    /\ \E msg \in Messages : res' = Response("message", i, 200, "OK")
    /\ UNCHANGED <<params, state, timers>>

\* /start without the `consensusTimer !== null` check
StartNoGuard(i) ==
    IF isFaulty[i]
    THEN /\ res' = Response("start", i, 200, "Faulty node: consensus not started.")
         /\ UNCHANGED <<params, state, timers>>
    ELSE IF F < FaultThreshold
    THEN /\ consensusTimer' = [consensusTimer EXCEPT ![i] = "timeout"]
         /\ pending' = [pending EXCEPT ![i] = pending[i] + 1]
         /\ res' = Response("start", i, 200, "Consensus started")
         /\ UNCHANGED <<params, state>>
    ELSE /\ k' = [k EXCEPT ![i] = FirstRound]
         /\ consensusTimer' = [consensusTimer EXCEPT ![i] = "interval"]
         /\ pending' = [pending EXCEPT ![i] = pending[i] + 1]
         /\ res' = Response("start", i, 200, "Consensus started")
         /\ UNCHANGED <<params, killed, x, decided>>

\* /start without the `isFaulty` check
StartIgnoresFaulty(i) ==
    IF consensusTimer[i] # "null"
    THEN /\ res' = Response("start", i, 400, "Consensus algorithm already running.")
         /\ UNCHANGED <<params, state, timers>>
    ELSE IF F < FaultThreshold
    THEN /\ consensusTimer' = [consensusTimer EXCEPT ![i] = "timeout"]
         /\ pending' = [pending EXCEPT ![i] = pending[i] + 1]
         /\ res' = Response("start", i, 200, "Consensus started")
         /\ UNCHANGED <<params, state>>
    ELSE /\ k' = [k EXCEPT ![i] = FirstRound]
         /\ consensusTimer' = [consensusTimer EXCEPT ![i] = "interval"]
         /\ pending' = [pending EXCEPT ![i] = pending[i] + 1]
         /\ res' = Response("start", i, 200, "Consensus started")
         /\ UNCHANGED <<params, killed, x, decided>>

\* /start that re-initialises round and decision in the F < 5 branch too
StartResetsDecision(i) ==
    IF consensusTimer[i] # "null"
    THEN /\ res' = Response("start", i, 400, "Consensus algorithm already running.")
         /\ UNCHANGED <<params, state, timers>>
    ELSE IF isFaulty[i]
    THEN /\ res' = Response("start", i, 200, "Faulty node: consensus not started.")
         /\ UNCHANGED <<params, state, timers>>
    ELSE IF F < FaultThreshold
    THEN /\ k' = [k EXCEPT ![i] = FirstRound]
         /\ decided' = [decided EXCEPT ![i] = "false"]
         /\ consensusTimer' = [consensusTimer EXCEPT ![i] = "timeout"]
         /\ pending' = [pending EXCEPT ![i] = pending[i] + 1]
         /\ res' = Response("start", i, 200, "Consensus started")
         /\ UNCHANGED <<params, killed, x>>
    ELSE /\ k' = [k EXCEPT ![i] = FirstRound]
         /\ consensusTimer' = [consensusTimer EXCEPT ![i] = "interval"]
         /\ pending' = [pending EXCEPT ![i] = pending[i] + 1]
         /\ res' = Response("start", i, 200, "Consensus started")
         /\ UNCHANGED <<params, killed, x, decided>>

\* /start with the threshold test written `F <= 5`
StartThresholdOffByOne(i) ==
    IF consensusTimer[i] # "null"
    THEN /\ res' = Response("start", i, 400, "Consensus algorithm already running.")
         /\ UNCHANGED <<params, state, timers>>
    ELSE IF isFaulty[i]
    THEN /\ res' = Response("start", i, 200, "Faulty node: consensus not started.")
         /\ UNCHANGED <<params, state, timers>>
    ELSE IF F <= FaultThreshold
    THEN /\ consensusTimer' = [consensusTimer EXCEPT ![i] = "timeout"]
         /\ pending' = [pending EXCEPT ![i] = pending[i] + 1]
         /\ res' = Response("start", i, 200, "Consensus started")
         /\ UNCHANGED <<params, state>>
    ELSE /\ k' = [k EXCEPT ![i] = FirstRound]
         /\ consensusTimer' = [consensusTimer EXCEPT ![i] = "interval"]
         /\ pending' = [pending EXCEPT ![i] = pending[i] + 1]
         /\ res' = Response("start", i, 200, "Consensus started")
         /\ UNCHANGED <<params, killed, x, decided>>

\* GET /start
Start(i) ==
    IF consensusTimer[i] # "null"
    THEN /\ res' = Response("start", i, 400, "Consensus algorithm already running.")
         /\ UNCHANGED <<params, state, timers>>
    ELSE IF isFaulty[i]
    THEN /\ res' = Response("start", i, 200, "Faulty node: consensus not started.")
         /\ UNCHANGED <<params, state, timers>>
    ELSE IF F < FaultThreshold
    THEN /\ consensusTimer' = [consensusTimer EXCEPT ![i] = "timeout"]
         /\ pending' = [pending EXCEPT ![i] = pending[i] + 1]
         /\ res' = Response("start", i, 200, "Consensus started")
         /\ UNCHANGED <<params, state>>
    ELSE /\ k' = [k EXCEPT ![i] = FirstRound]
         /\ consensusTimer' = [consensusTimer EXCEPT ![i] = "interval"]
         /\ pending' = [pending EXCEPT ![i] = pending[i] + 1]
         /\ res' = Response("start", i, 200, "Consensus started")
         /\ UNCHANGED <<params, killed, x, decided>>

\* finality callback without `state.x = 1`: the node decides its own value
FinalityTimeoutKeepsX(i) ==
    /\ pending[i] > 0
    /\ F < FaultThreshold
    /\ k' = [k EXCEPT ![i] = FinalRound]
    /\ decided' = [decided EXCEPT ![i] = "true"]
    /\ consensusTimer' = [consensusTimer EXCEPT ![i] = "null"]
    /\ pending' = [pending EXCEPT ![i] = pending[i] - 1]
    /\ res' = NoResponse
    /\ UNCHANGED <<params, killed, x>>

\* finality callback without `state.decided = true`
FinalityTimeoutForgetsDecided(i) ==
    /\ pending[i] > 0
    /\ F < FaultThreshold
    /\ k' = [k EXCEPT ![i] = FinalRound]
    /\ x' = [x EXCEPT ![i] = FinalValue]
    /\ consensusTimer' = [consensusTimer EXCEPT ![i] = "null"]
    /\ pending' = [pending EXCEPT ![i] = pending[i] - 1]
    /\ res' = NoResponse
    /\ UNCHANGED <<params, killed, decided>>

\* finality callback without `consensusTimer = null`
FinalityTimeoutKeepsHandle(i) ==
    /\ pending[i] > 0
    /\ F < FaultThreshold
    /\ k' = [k EXCEPT ![i] = FinalRound]
    /\ decided' = [decided EXCEPT ![i] = "true"]
    /\ x' = [x EXCEPT ![i] = FinalValue]
    /\ pending' = [pending EXCEPT ![i] = pending[i] - 1]
    /\ res' = NoResponse
    /\ UNCHANGED <<params, killed, consensusTimer>>

\* the setTimeout callback of /start (F < 5): runs once when a live timeout
\* expires, whatever the handle variable holds by then
FinalityTimeout(i) ==
    /\ pending[i] > 0
    /\ F < FaultThreshold
    /\ k' = [k EXCEPT ![i] = FinalRound]
    /\ decided' = [decided EXCEPT ![i] = "true"]
    /\ x' = [x EXCEPT ![i] = FinalValue]
    /\ consensusTimer' = [consensusTimer EXCEPT ![i] = "null"]
    /\ pending' = [pending EXCEPT ![i] = pending[i] - 1]
    /\ res' = NoResponse
    /\ UNCHANGED <<params, killed>>

\* one firing of the setInterval callback of /start (F >= 5); the interval
\* stays live
IntervalTick(i) ==
    /\ pending[i] > 0
    /\ F >= FaultThreshold
    /\ k[i] < horizon
    /\ k' = [k EXCEPT ![i] = k[i] + 1]
    /\ res' = NoResponse
    /\ UNCHANGED <<params, killed, x, decided, timers>>

\* clearTimeout / clearInterval on the handle of node i: cancels the timer
\* it refers to, and does nothing when that timer is no longer live
Cleared(i) == [pending EXCEPT ![i] = IF pending[i] > 0 THEN pending[i] - 1 ELSE 0]

\* /stop that also discards the round counter of the run it halts
StopClearsRound(i) ==
    IF consensusTimer[i] # "null"
    THEN /\ pending' = Cleared(i)
         /\ consensusTimer' = [consensusTimer EXCEPT ![i] = "null"]
         /\ k' = [k EXCEPT ![i] = Null]
         /\ res' = Response("stop", i, 200, "Consensus stopped")
         /\ UNCHANGED <<params, killed, x, decided>>
    ELSE /\ res' = Response("stop", i, 200, "Consensus algorithm not running.")
         /\ UNCHANGED <<params, state, timers>>

\* /stop that resets the decision flag outside the `consensusTimer !== null` test
StopResetsDecision(i) ==
    /\ decided' = [decided EXCEPT ![i] = "false"]
    /\ IF consensusTimer[i] # "null"
       THEN /\ pending' = Cleared(i)
            /\ consensusTimer' = [consensusTimer EXCEPT ![i] = "null"]
            /\ res' = Response("stop", i, 200, "Consensus stopped")
       ELSE /\ res' = Response("stop", i, 200, "Consensus algorithm not running.")
            /\ UNCHANGED timers
    /\ UNCHANGED <<params, killed, x, k>>

\* /stop without `consensusTimer = null`
StopKeepsHandle(i) ==
    IF consensusTimer[i] # "null"
    THEN /\ pending' = Cleared(i)
         /\ res' = Response("stop", i, 200, "Consensus stopped")
         /\ UNCHANGED <<params, state, consensusTimer>>
    ELSE /\ res' = Response("stop", i, 200, "Consensus algorithm not running.")
         /\ UNCHANGED <<params, state, timers>>

\* /stop without the clearTimeout / clearInterval calls
StopLeaksTimer(i) ==
    IF consensusTimer[i] # "null"
    THEN /\ consensusTimer' = [consensusTimer EXCEPT ![i] = "null"]
         /\ res' = Response("stop", i, 200, "Consensus stopped")
         /\ UNCHANGED <<params, state, pending>>
    ELSE /\ res' = Response("stop", i, 200, "Consensus algorithm not running.")
         /\ UNCHANGED <<params, state, timers>>

\* GET /stop
Stop(i) ==
    IF consensusTimer[i] # "null"
    THEN /\ pending' = Cleared(i)
         /\ consensusTimer' = [consensusTimer EXCEPT ![i] = "null"]
         /\ res' = Response("stop", i, 200, "Consensus stopped")
         /\ UNCHANGED <<params, state>>
    ELSE /\ res' = Response("stop", i, 200, "Consensus algorithm not running.")
         /\ UNCHANGED <<params, state, timers>>

\* GET /getState
GetState(i) ==
    /\ res' = [op |-> "getState", node |-> i, status |-> 200, body |-> "",
               json |-> Snapshot(i)]
    /\ UNCHANGED <<params, state, timers>>

Next ==
    \/ \E i \in Nodes : Status(i)
    \/ \E i \in Nodes : Message(i)
    \/ \E i \in Nodes : Start(i)
    \/ \E i \in Nodes : FinalityTimeout(i)
    \/ \E i \in Nodes : IntervalTick(i)
    \/ \E i \in Nodes : Stop(i)
    \/ \E i \in Nodes : GetState(i)

Spec == Init /\ [][Next]_vars

\* Node.js fires a pending timeout, and every period of a pending interval,
\* unless it is cleared first.
Fairness ==
    \A i \in 0 .. (MaxNodes - 1) :
        /\ WF_vars(i \in Nodes /\ FinalityTimeout(i))
        /\ WF_vars(i \in Nodes /\ IntervalTick(i))

FairSpec == Init /\ [][Next]_vars /\ Fairness

ScenarioSpec == ScenarioInit /\ [][Next]_vars

\* the same timer fairness for the four nodes of the scenario network
ScenarioFairness ==
    \A i \in 0 .. 3 :
        /\ WF_vars(i \in Nodes /\ FinalityTimeout(i))
        /\ WF_vars(i \in Nodes /\ IntervalTick(i))

ScenarioFairSpec == ScenarioInit /\ [][Next]_vars /\ ScenarioFairness

\* ------------------------------------------------------------ vocabulary
Healthy(i) == ~isFaulty[i]

\* the per-node data named by the claims: state plus the timer handle
NodeState(i) == <<killed[i], x[i], decided[i], k[i], consensusTimer[i], pending[i]>>
NodeStateNext(i) ==
    <<killed'[i], x'[i], decided'[i], k'[i], consensusTimer'[i], pending'[i]>>

\* this step is a /start on node i that was accepted
StartAccepted(i) == consensusTimer[i] = "null" /\ consensusTimer'[i] # "null"

\* the model holds every healthy node of the network
AllHealthyObserved == Cardinality({i \in Nodes : Healthy(i)}) = N - F

\* ------------------------------------------------------------------- C1
\* C1 (Agreement): with N > 2F, any two healthy nodes that have both
\* decided hold the same value x.
Agreement ==
    N > 2 * F =>
        \A i, j \in Nodes :
            (Healthy(i) /\ Healthy(j) /\ decided[i] = "true" /\ decided[j] = "true")
                => x[i] = x[j]

\* two healthy nodes constructed with different values have both decided
AgreementWitness ==
    /\ N > 2 * F
    /\ \E i, j \in Nodes :
          /\ i # j /\ Healthy(i) /\ Healthy(j)
          /\ initialValue[i] # initialValue[j]
          /\ decided[i] = "true" /\ decided[j] = "true"

\* ------------------------------------------------------------------- C2
\* C2 (Validity): if every healthy node is constructed with the same
\* initial value v, every healthy node that has decided has x = v.
Validity ==
    \A v \in Values :
        (AllHealthyObserved /\ \A i \in Nodes : Healthy(i) => initialValue[i] = v)
            => \A i \in Nodes : (Healthy(i) /\ decided[i] = "true") => x[i] = v

\* ------------------------------------------------------------------- C3
\* C3 (Termination): with N > 2F, a healthy non-killed node whose start
\* was accepted and that is not stopped afterwards eventually has
\* decided = true, timers firing fairly.
Termination ==
    \A i \in 0 .. (MaxNodes - 1) :
        (i \in Nodes /\ N > 2 * F /\ Healthy(i) /\ ~killed[i]
                /\ consensusTimer[i] # "null")
            ~> (i \in Nodes /\ (decided[i] = "true" \/ consensusTimer[i] = "null"))

\* ------------------------------------------------------------------- C4
\* C4 (Non-termination under insufficient quorum): with N <= 2F no healthy
\* node ever has decided = true.
InsufficientQuorumNeverDecides ==
    N <= 2 * F => \A i \in Nodes : Healthy(i) => decided[i] # "true"

\* ------------------------------------------------------------------- C5
\* C5 (Decision is terminal): once decided is true on a node, every later
\* step leaves decided true, k non-null and x unchanged.
DecisionIsTerminal ==
    [][\A i \in Nodes :
          decided[i] = "true" =>
              /\ k[i] # Null
              /\ decided'[i] = "true"
              /\ k'[i] # Null
              /\ x'[i] = x[i]]_vars

\* a decided node on which a new start has been accepted
DecisionIsTerminalWitness ==
    \E i \in Nodes : decided[i] = "true" /\ consensusTimer[i] = "timeout"

\* ------------------------------------------------------------------- C6
\* C6 as stated (Round monotonicity): on a healthy node with decided # true
\* no step lowers the round k, stop followed by start included.
RoundMonotonic ==
    [][\A i \in Nodes :
          (Healthy(i) /\ decided[i] # "true" /\ k[i] # Null)
              => (k'[i] # Null /\ k'[i] >= k[i])]_vars

\* C6 as amended: on a healthy node with decided # true no step other than
\* an accepted start lowers the round k; an accepted start sets it to 0.
RoundMonotonicExceptStart ==
    [][\A i \in Nodes :
          (Healthy(i) /\ decided[i] # "true" /\ k[i] # Null)
              => IF StartAccepted(i)
                 THEN k'[i] = FirstRound
                 ELSE k'[i] # Null /\ k'[i] >= k[i]]_vars

\* an undecided healthy node stopped after its round counter has advanced
RoundMonotonicWitness ==
    /\ res.op = "stop"
    /\ res.body = "Consensus stopped"
    /\ Healthy(res.node)
    /\ decided[res.node] # "true"
    /\ k[res.node] >= 1

\* ------------------------------------------------------------------- C7
\* C7 (start rejected while running): a start on a node whose timer is
\* pending is answered 400 and leaves x, k, decided, killed and the timer
\* of that node unchanged.
StartRejectedWhileRunning ==
    [][\A i \in Nodes :
          (consensusTimer[i] # "null" /\ res'.op = "start" /\ res'.node = i)
              => (res'.status = 400 /\ NodeStateNext(i) = NodeState(i))]_vars

\* a start has just been declined on a node whose timer is pending
StartRejectedWitness ==
    /\ res.op = "start"
    /\ res.status = 400
    /\ consensusTimer[res.node] # "null"

\* ------------------------------------------------------------------- C8
\* C8 (Effect of an accepted start): right after a start is accepted on a
\* healthy node, k = 0 and decided = false.
AcceptedStartEffect ==
    [][\A i \in Nodes :
          (Healthy(i) /\ StartAccepted(i))
              => (k'[i] = FirstRound /\ decided'[i] = "false")]_vars

\* ------------------------------------------------------------------- C9
\* C9 (A faulty node never decides): on a faulty node x, k and decided stay
\* null and no timer is ever pending.
FaultyNeverDecides ==
    \A i \in Nodes :
        isFaulty[i] =>
            /\ x[i] = Null
            /\ k[i] = Null
            /\ decided[i] = "null"
            /\ consensusTimer[i] = "null"

\* a faulty node has just answered a start
FaultyNeverDecidesWitness ==
    /\ res.op = "start"
    /\ res.status = 200
    /\ isFaulty[res.node]

\* ------------------------------------------------------------------ C10
\* C10 (Idempotent stop): a stop that directly follows a stop on the same
\* node, and a stop on a node that is not running, leave x, k, decided,
\* killed and the timer of that node unchanged.
StopIdempotent ==
    [][\A i \in Nodes :
          (/\ res'.op = "stop"
           /\ res'.node = i
           /\ \/ consensusTimer[i] = "null"
              \/ (res.op = "stop" /\ res.node = i))
              => NodeStateNext(i) = NodeState(i)]_vars

\* a second stop in a row on a node whose run had advanced the round
StopIdempotentWitness ==
    /\ res.op = "stop"
    /\ res.body = "Consensus algorithm not running."
    /\ k[res.node] >= 1

MessageDrivenRounds ==
    [][\A i \in Nodes :
          ((k'[i] # k[i] /\ ~StartAccepted(i)) \/ decided'[i] # decided[i])
              => (res'.op = "message" /\ res'.node = i)]_vars

\* ------------------------------------------------------------------ C14
\* the whole network N = 4, F = 1 with every healthy initial value 1
ScenarioFour ==
    /\ N = 4 /\ F = 1
    /\ Cardinality(Nodes) = 4
    /\ \A i \in Nodes : Healthy(i) => initialValue[i] = 1

\* start has been called on node i and answered 200
Started(i) ==
    \/ consensusTimer[i] # "null"
    \/ (res.op = "start" /\ res.node = i /\ res.status = 200)

DecidedOne(i) == decided[i] = "true" /\ x[i] = 1 /\ k[i] # Null /\ k[i] <= 3

\* the run of healthy node i was stopped before its first round ended
StoppedEarly(i) == Healthy(i) /\ consensusTimer[i] = "null" /\ k[i] = Null

\* C14 as stated: in the scenario every one of the four nodes on which
\* start was called, the faulty one included, eventually has decided = true
\* with x = 1 at a round k <= 3 (unless its run is stopped).
ScenarioAllDecide ==
    \A i \in 0 .. 3 :
        (i \in Nodes /\ ScenarioFour /\ Started(i))
            ~> (i \in Nodes /\ (DecidedOne(i) \/ StoppedEarly(i)))

\* C14 as amended: in the scenario every healthy node on which start was
\* called eventually has decided = true with x = 1 at a round k <= 3
\* (unless its run is stopped), and the faulty node never decides.
ScenarioHealthyDecide ==
    /\ \A i \in 0 .. 3 :
          (i \in Nodes /\ ScenarioFour /\ Healthy(i) /\ Started(i))
              ~> (i \in Nodes /\ (DecidedOne(i) \/ StoppedEarly(i)))
    /\ [](ScenarioFour =>
            \A i \in Nodes :
                /\ isFaulty[i] => decided[i] # "true"
                /\ decided[i] = "true" => DecidedOne(i))

\* the three healthy nodes have decided 1 and the faulty node has just
\* answered its start
ScenarioHealthyDecideWitness ==
    /\ ScenarioFour
    /\ \A i \in Nodes : Healthy(i) => DecidedOne(i)
    /\ res.op = "start"
    /\ isFaulty[res.node]

\* ------------------------------------------------------------------ C15
\* C15 (scenario N = 10, F = 6): a healthy node whose round counter has
\* advanced 200 times since its start has decided = false and k >= 190.
ScenarioStall ==
    (N = 10 /\ F = 6) =>
        \A i \in Nodes :
            (Healthy(i) /\ k[i] >= 200) => (decided[i] = "false" /\ k[i] >= 190)

\* ------------------------------------------------------------------ C16
\* C16 (Round step size): on a healthy node with decided # true, every step
\* that changes k, other than the initialisation by an accepted start,
\* takes it from k to k + 1, the deciding step included.
RoundStepSize ==
    [][\A i \in Nodes :
          (Healthy(i) /\ decided[i] # "true" /\ k'[i] # k[i] /\ ~StartAccepted(i))
              => (k[i] # Null /\ k'[i] = k[i] + 1)]_vars

\* ------------------------------------------------------------------ C17
\* C17 (Simulated finality outcome): a healthy node with decided = true has
\* x = 1 and k = 2, and that happens only when F < 5; when F >= 5 an
\* accepted start sets k to 0, every other change of k is a timer tick that
\* adds one, and decided is never true.
SimulatedFinality ==
    /\ [](\A i \in Nodes :
            (Healthy(i) /\ decided[i] = "true") => (x[i] = 1 /\ k[i] = 2 /\ F < 5))
    /\ [][\A i \in Nodes :
            (Healthy(i) /\ F >= 5) =>
                /\ StartAccepted(i) => k'[i] = 0
                /\ (k'[i] # k[i] /\ ~StartAccepted(i))
                      => (k'[i] = k[i] + 1 /\ res'.op = "none")]_vars

\* a healthy node constructed with 0 has decided and is idle
SimulatedFinalityWitness ==
    \E i \in Nodes :
        /\ Healthy(i)
        /\ initialValue[i] = 0
        /\ decided[i] = "true"
        /\ consensusTimer[i] = "null"

\* ------------------------------------------------------------------ C18
\* C18 (At most one consensus timer per node): a node never has more than
\* one live timer, and has one exactly when its handle is set; a start on a
\* healthy node is accepted exactly when no timer is pending, also after a
\* decision; with F >= 5 a pending timer only goes away by a stop.
OneTimerPerNode ==
    /\ [](\A i \in Nodes :
            /\ pending[i] <= 1
            /\ pending[i] = 1 <=> consensusTimer[i] # "null")
    /\ [][\A i \in Nodes :
            (Healthy(i) /\ res'.op = "start" /\ res'.node = i)
                => /\ res'.status = 200 <=> consensusTimer[i] = "null"
                   /\ res'.status = 200 => pending'[i] = 1]_vars
    /\ [][\A i \in Nodes :
            (F >= 5 /\ consensusTimer[i] # "null" /\ consensusTimer'[i] = "null")
                => (res'.op = "stop" /\ res'.node = i)]_vars

\* a start has just been accepted on a node that had already decided
OneTimerPerNodeWitness ==
    /\ res.op = "start"
    /\ res.status = 200
    /\ Healthy(res.node)
    /\ decided[res.node] = "true"
    /\ pending[res.node] = 1

\* ------------------------------------------------------------------ C19
\* C19 (Stop cancels pending work): while no run is in progress on a node,
\* as after a stop, x, k and decided of the node change only by the next
\* accepted start.
StopCancelsPendingWork ==
    [][\A i \in Nodes :
          consensusTimer[i] = "null"
              => \/ <<x'[i], k'[i], decided'[i]>> = <<x[i], k[i], decided[i]>>
                 \/ StartAccepted(i)]_vars

\* a healthy node with F < 5 has just been stopped before its finality
\* timeout fired
StopCancelsPendingWorkWitness ==
    /\ res.op = "stop"
    /\ res.body = "Consensus stopped"
    /\ Healthy(res.node)
    /\ F < 5
    /\ decided[res.node] = "null"

====
